---- MODULE Spec2Model ----
(***************************************************************************)
(* Model of app/db/__init__.py and app/db/models/user.py: the session      *)
(* helpers get_args_db / update_args_db, the two transaction wrappers      *)
(* db_update and db_query, the wrapped operations of Base and User, the    *)
(* cross-table propagation of Base.relevancy_update and of                 *)
(* User.update_all_username, and the per-thread sessions of ScopedSession. *)
(*                                                                         *)
(* A session is modelled by the statements it holds uncommitted (pend)     *)
(* and by whether it holds a transaction (active).  commit applies the     *)
(* pending statements to the durable store, rollback and close discard     *)
(* them.  Session.close() is taken not to raise (the pool swallows reset   *)
(* errors); commit, rollback and every statement may raise.                *)
(***************************************************************************)
EXTENDS Integers, Sequences, FiniteSets, TLC

VARIABLES
    durable,    \* the committed store: [eff, tbl, ent, ntbl, usr]
    pend,       \* pend[s]: statements of session s not yet committed, in order
    active,     \* active[s]: session s holds a transaction (a connection)
    copen,      \* get_db has yielded its session and not yet closed it
    stack,      \* the thread's stack of wrapper frames, innermost last
    ncalls,     \* wrapped calls started so far; a call's id
    last,       \* the frame of the last call with inputs that returned or raised
    seq,        \* ids of the calls that wrote on get_db's session since it was yielded
    seqFailed,  \* a top-level call given get_db's session has raised since then
    a_kind,     \* SpecArgs: the called function's kind (static or method)
    a_args,     \* SpecArgs: positional arguments of the call
    a_kwargs,   \* SpecArgs: keyword arguments of the call, in order
    a_out,      \* SpecArgs: the wrapper's db, _close_db, args, kwargs after acquisition
    tid,        \* the thread that is running; stack is its stack
    parked      \* parked[t]: the stack of thread t while another thread runs

dbVars   == <<durable, pend, active, copen, stack, ncalls, last, seq, seqFailed>>
argVars  == <<a_kind, a_args, a_kwargs, a_out>>
thrVars  == <<tid, parked>>
vars     == <<durable, pend, active, copen, stack, ncalls, last, seq, seqFailed,
              a_kind, a_args, a_kwargs, a_out, tid, parked>>

----------------------------------------------------------------------------
(* Bounds *)

\* no top-level call starts once this many wrapped calls (nested ones
\* included) were made in a behaviour of Spec
MaxCalls == 3
\* positional arguments of a call in SpecArgs
MaxArgs == 3
\* no top-level call starts once this many wrapped calls (nested ones
\* included) were made by the two threads of SpecConc
MaxConcCalls == 2

----------------------------------------------------------------------------
(* Values *)

None == "None"

Threads == {1, 2}

\* the sessions the scoped_session registry holds, one for each thread
ThreadSession == <<"scoped", "scoped2">>

\* faulty variant of ScopedSession: one session object for the module
ScopedSessionShared == "scoped"

\* ScopedSession(): the running thread's session of the scoped_session registry
ScopedSession == ThreadSession[tid]
\* SessionFactory() as get_db yields it to a request
RequestSession == "request"

Sessions == {ThreadSession[t] : t \in Threads} \cup {RequestSession}

\* isinstance(x, Session)
IsSession(x) == x \in Sessions

NoExc == [k |-> "none", by |-> 0]

----------------------------------------------------------------------------
(* get_args_db, update_args_db.  args is a sequence of values, kwargs a    *)
(* sequence of <<key, value>> pairs in insertion order.                    *)

FirstSession(s) ==
    IF \E i \in 1..Len(s) : IsSession(s[i])
    THEN s[CHOOSE i \in 1..Len(s) :
             /\ IsSession(s[i])
             /\ \A j \in 1..(i-1) : ~IsSession(s[j])]
    ELSE None

KwValues(kwargs) == [i \in 1..Len(kwargs) |-> kwargs[i][2]]
KwKeys(kwargs) == {kwargs[i][1] : i \in 1..Len(kwargs)}
KwGet(kwargs, key) ==
    kwargs[CHOOSE i \in 1..Len(kwargs) : kwargs[i][1] = key][2]

GetArgsDb(args, kwargs) ==
    LET fromArgs == IF args # <<>> THEN FirstSession(args) ELSE None
        fromKw   == IF kwargs # <<>> THEN FirstSession(KwValues(kwargs)) ELSE None
    IN  IF fromKw # None THEN fromKw ELSE fromArgs

\* faulty variant of UpdateArgsDb: the session always put in the first positional slot
UpdateArgsDbFirstSlot(args, kwargs, db) ==
    IF kwargs # <<>> /\ "db" \in KwKeys(kwargs)
    THEN <<args,
           [i \in 1..Len(kwargs) |->
               IF kwargs[i][1] = "db" THEN <<"db", db>> ELSE kwargs[i]]>>
    ELSE IF args # <<>>
         THEN <<(<<db>> \o SubSeq(args, 2, Len(args))), kwargs>>
         ELSE <<args, kwargs>>

UpdateArgsDb(args, kwargs, db) ==
    IF kwargs # <<>> /\ "db" \in KwKeys(kwargs)
    THEN <<args,
           [i \in 1..Len(kwargs) |->
               IF kwargs[i][1] = "db" THEN <<"db", db>> ELSE kwargs[i]]>>
    ELSE IF args # <<>>
         THEN IF args[1] = None
              THEN <<(<<db>> \o SubSeq(args, 2, Len(args))), kwargs>>
              ELSE <<(<<args[1], db>> \o SubSeq(args, 3, Len(args))), kwargs>>
         ELSE <<args, kwargs>>

----------------------------------------------------------------------------
(* The wrapped operations: decorator, signature, body.                     *)

UpdateFuncs == {"create", "update", "delete", "truncate", "delete_by_name",
                "delete_by_id", "update_otp_by_name", "update_all_username",
                "relevancy_update"}
QueryFuncs  == {"get", "list", "authenticate", "get_by_name", "get_by_id"}

\* an operation composed of others, as the unit of work of the session
\* registry: it writes, calls a wrapped operation without passing a session,
\* and writes again; wrapped by db_update and called without a session
ComposedFuncs == {"compose"}
ComposedParams == <<"self", "db">>
ComposedBody == <<"stmt", "callnone", "stmt">>
\* the wrapped operations such a nested call reaches
NestedCallees == {"create", "get", "delete_by_name"}

\* the decorator a function carries
Policy(f) == IF f \in UpdateFuncs \cup ComposedFuncs THEN "update" ELSE "query"

\* the parameters the wrapper's *args are bound to
Params(f) ==
    CASE f = "create"             -> <<"self", "db">>
      [] f = "get"                -> <<"cls", "db", "rid">>
      [] f = "update"             -> <<"self", "db", "payload">>
      [] f = "delete"             -> <<"cls", "db", "rid">>
      [] f = "truncate"           -> <<"cls", "db">>
      [] f = "list"               -> <<"cls", "db">>
      [] f = "relevancy_update"   -> <<"self", "db", "payload", "relation_info">>
      [] f = "authenticate"       -> <<"db", "name", "password", "otp_password">>
      [] f = "get_by_name"        -> <<"db", "name">>
      [] f = "get_by_id"          -> <<"db", "user_id">>
      [] f = "delete_by_name"     -> <<"self", "db", "name">>
      [] f = "delete_by_id"       -> <<"self", "db", "user_id">>
      [] f = "update_otp_by_name" -> <<"self", "db", "name", "otp", "secret">>
      [] f = "update_all_username" ->
            <<"self", "db", "payload", "old_username", "new_username">>
      [] f \in ComposedFuncs       -> ComposedParams

\* the body of a function as the statements and nested wrapped calls it makes:
\* "stmt" writes on db, "read" queries db, "call:g" calls wrapped g passing db,
\* "callnone" calls a wrapped operation with None for db,
\* "ifuser" leaves the body when the lookup before it found no row
Body(f) ==
    CASE f = "create"             -> <<"stmt">>
      [] f = "get"                -> <<"read">>
      [] f = "update"             -> <<"stmt">>
      [] f = "delete"             -> <<"stmt">>
      [] f = "truncate"           -> <<"stmt">>
      [] f = "list"               -> <<"read">>
      [] f = "authenticate"       -> <<"read">>
      [] f = "get_by_name"        -> <<"read">>
      [] f = "get_by_id"          -> <<"read">>
      [] f = "delete_by_name"     -> <<"call:get_by_name", "ifuser", "call:delete">>
      [] f = "delete_by_id"       -> <<"call:get_by_id", "ifuser", "call:delete">>
      [] f = "update_otp_by_name" -> <<"call:get_by_name", "ifuser", "call:update">>
      [] f = "relevancy_update"   -> <<>>
      [] f = "update_all_username" -> <<>>
      [] f \in ComposedFuncs       -> ComposedBody

Callee(instr) ==
    CASE instr = "call:get_by_name" -> "get_by_name"
      [] instr = "call:get_by_id"   -> "get_by_id"
      [] instr = "call:delete"      -> "delete"
      [] instr = "call:update"      -> "update"

IsCall(instr) == instr \in {"call:get_by_name", "call:get_by_id",
                            "call:delete", "call:update"}

\* what the body returns when it runs to its end / leaves at "ifuser"
BodyResult(f) == IF Policy(f) = "update" THEN "True" ELSE "row"
\* faulty variant of EarlyResult: True returned also when no user was found
EarlyResultTrue(f) == "True"

EarlyResult(f) == IF f = "update_otp_by_name" THEN "False" ELSE "True"

\* Python's binding of the call's arguments to the parameters: the value the
\* function's db parameter receives, and whether the call binds at all
BindOk(params, args, kwargs) ==
    /\ Len(args) <= Len(params)
    /\ \A i \in 1..Len(kwargs) :
          \E j \in (Len(args)+1)..Len(params) : params[j] = kwargs[i][1]
    /\ \A j \in (Len(args)+1)..Len(params) : params[j] \in KwKeys(kwargs)

BoundDb(params, args, kwargs) ==
    LET j == CHOOSE i \in 1..Len(params) : params[i] = "db"
    IN  IF j <= Len(args) THEN args[j] ELSE KwGet(kwargs, "db")

\* a call as the repository's callers write it: the session (or None in its
\* place) positionally after the receiver, or as the keyword db
CallArgs(f, given, style) ==
    LET ps == Params(f)
        val(p) == IF p = "db" THEN given
                  ELSE IF p \in {"self", "cls"} THEN "obj" ELSE "v"
        nrecv == IF ps[1] \in {"self", "cls"} THEN 1 ELSE 0
    IN  IF style = "pos"
        THEN <<[i \in 1..Len(ps) |-> val(ps[i])], <<>>>>
        ELSE <<[i \in 1..nrecv |-> val(ps[i])],
               [i \in 1..(Len(ps) - nrecv) |-> <<ps[i + nrecv], val(ps[i + nrecv])>>]>>

----------------------------------------------------------------------------
(* The store.  Base.metadata.tables is the registry; its tables and        *)
(* columns are those of the propagation example: A(x, y), B(x), C(y).      *)

TableOrder == <<"A", "B", "C">>
Tables == {"A", "B", "C"}
Columns == [A |-> {"x", "y"}, B |-> {"x"}, C |-> {"y"}]
ColNames == <<"x", "y">>
Rows == {1, 2}
Vals == {1, 2}

\* the attributes of the entity relevancy_update is called on
EntKeys == <<"name", "email">>

InitTbl ==
    [t \in Tables |-> [r \in Rows |-> [c \in Columns[t] |-> r]]]

InitEnt == [name |-> "n0", email |-> "e0"]

\* the tables update_all_username walks: user has no username column
\* (models/user.py), siteuserdata and subscribe have one
NameTableOrder == <<"user", "siteuserdata", "subscribe">>
NameTables == {"user", "siteuserdata", "subscribe"}
NameColumns == [user |-> {"name"}, siteuserdata |-> {"username"},
                subscribe |-> {"username"}]
Usernames == <<"alice", "bob">>

InitNameTbl ==
    [t \in NameTables |-> [r \in Rows |-> [c \in NameColumns[t] |-> Usernames[r]]]]

\* the rows of the user table: id, name (unique), email, is_otp, otp_secret.
\* Python's True / False are "True" / "False", like None is "None".
UserIds == {1, 2}
UserNameOf == <<"alice", "bob">>
UserKeys == <<"email", "is_otp", "otp_secret">>

UserRows ==
    {[id |-> i, name |-> UserNameOf[i], email |-> "e0", is_otp |-> o,
      otp_secret |-> x] :
        i \in UserIds, o \in {"False", "True"}, x \in {None, "s1"}}

\* the user tables: at most one row of each id
UserTables == {t \in SUBSET UserRows : \A r1, r2 \in t : r1.id = r2.id => r1 = r2}

InitUsr ==
    {[id |-> 1, name |-> "alice", email |-> "e0", is_otp |-> "False",
      otp_secret |-> None]}

InitDurable ==
    [eff |-> {}, tbl |-> InitTbl, ent |-> InitEnt, ntbl |-> InitNameTbl,
     usr |-> InitUsr]

\* faulty variant of UpdateRows: values() given every column of the matching rows
UpdateRowsWholeRow(tbl, t, c, old, new) ==
    [tbl EXCEPT ![t] =
        [r \in Rows |-> IF tbl[t][r][c] = old
                        THEN [k \in DOMAIN tbl[t][r] |-> new]
                        ELSE tbl[t][r]]]

\* table.update().where(table.c[column] == old_value).values(**{column: new_value})
UpdateRows(tbl, t, c, old, new) ==
    [tbl EXCEPT ![t] =
        [r \in Rows |-> IF tbl[t][r][c] = old
                        THEN [tbl[t][r] EXCEPT ![c] = new]
                        ELSE tbl[t][r]]]

\* faulty variant of DeleteRows: the filter an inequality
DeleteRowsUpTo(usr, rid) == {r \in usr : r.id > rid}

\* db.query(cls).filter(and_(cls.id == rid)).delete()
DeleteRows(usr, rid) == {r \in usr : r.id # rid}

\* the UPDATE a changed attribute of the object with identity id is flushed as
SetRow(usr, id, key, val) ==
    {IF r.id = id THEN [r EXCEPT ![key] = val] ELSE r : r \in usr}

\* one pending statement applied to a store
ApplyOp(d, op) ==
    CASE op.k = "eff" -> [d EXCEPT !.eff = @ \cup {op.id}]
      [] op.k = "set" -> [d EXCEPT !.ent = [@ EXCEPT ![op.key] = op.val]]
      [] op.k = "upd" -> [d EXCEPT !.tbl = UpdateRows(@, op.t, op.c, op.old, op.new)]
      [] op.k = "nupd" ->
            [d EXCEPT !.ntbl = UpdateRows(@, op.t, "username", op.old, op.new)]
      [] op.k = "uset" -> [d EXCEPT !.usr = SetRow(@, op.id, op.key, op.val)]
      [] op.k = "udel" -> [d EXCEPT !.usr = DeleteRows(@, op.rid)]

RECURSIVE ApplyAll(_, _)
ApplyAll(d, ops) ==
    IF ops = <<>> THEN d ELSE ApplyAll(ApplyOp(d, Head(ops)), Tail(ops))

----------------------------------------------------------------------------
(* Wrapper frames.                                                         *)

NoInp == [payload |-> <<>>, info |-> <<>>]

NoFrame ==
    [id |-> 0, f |-> "none", db |-> None, close_db |-> FALSE, fdb |-> None,
     pc |-> "none", ip |-> 0, err |-> NoExc, exc |-> NoExc, res |-> None,
     ev |-> <<>>, inp |-> NoInp, d0 |-> InitDurable, iss |-> <<>>,
     given |-> None]

\* db_update.wrapper / db_query.wrapper up to the try: the session is taken
\* from the arguments, or allocated and substituted into them
Acquire(args, kwargs) ==
    LET found == GetArgsDb(args, kwargs)
        own   == found = None
        db    == IF own THEN ScopedSession ELSE found
        upd   == IF own THEN UpdateArgsDb(args, kwargs, db) ELSE <<args, kwargs>>
    IN  [db |-> db, close_db |-> own, args |-> upd[1], kwargs |-> upd[2]]

\* the frame of a call as it enters the try
\* (given records what the caller passed, for the properties; the code reads db)
Enter(f, args, kwargs, id, inp, d, given) ==
    LET a == Acquire(args, kwargs)
    IN  [id |-> id, f |-> f, db |-> a.db, close_db |-> a.close_db,
         fdb |-> BoundDb(Params(f), a.args, a.kwargs),
         pc |-> "body", ip |-> 1, err |-> NoExc, exc |-> NoExc, res |-> None,
         ev |-> IF a.close_db THEN <<"alloc">> ELSE <<>>,
         inp |-> inp, d0 |-> d, iss |-> <<>>, given |-> given]

Top == stack[Len(stack)]
SetTop(fr) == [stack EXCEPT ![Len(stack)] = fr]
Running == stack # <<>>

\* faulty variant of Raise: db_update without its except clause, no rollback
RaiseNoRollback(fr, e) ==
    [fr EXCEPT !.pc = "finally", !.err = e, !.exc = e]

\* faulty variant of Raise: db_query rolling back like db_update
RaiseAlwaysRollback(fr, e) ==
    [fr EXCEPT !.pc = "except", !.err = e]

\* an exception leaves the call of func or db.commit(): db_update catches
\* it (except Exception as err), db_query re-raises it at once
Raise(fr, e) ==
    IF Policy(fr.f) = "update"
    THEN [fr EXCEPT !.pc = "except", !.err = e]
    ELSE [fr EXCEPT !.pc = "finally", !.err = e, !.exc = e]

\* faulty variant of Returned: db_update committing only a session it allocated
ReturnedCommitOwnedOnly(fr, r) ==
    [fr EXCEPT !.res = r,
               !.pc = IF Policy(fr.f) = "update" /\ fr.close_db
                      THEN "commit" ELSE "finally"]

\* func returned: db_update goes on to db.commit(), db_query to the finally
Returned(fr, r) ==
    [fr EXCEPT !.res = r,
               !.pc = IF Policy(fr.f) = "update" THEN "commit" ELSE "finally"]

Instr(fr) == Body(fr.f)[fr.ip]
InBody(fr) == fr.pc = "body" /\ fr.f \notin {"relevancy_update", "update_all_username"}

----------------------------------------------------------------------------
(* The caller: get_db yields a request session and closes it at the end;   *)
(* in between (or without one) it calls the wrapped operations.            *)

Discard(s) ==
    /\ pend' = [pend EXCEPT ![s] = <<>>]
    /\ active' = [active EXCEPT ![s] = FALSE]

Begin(s) == active' = [active EXCEPT ![s] = TRUE]

GetDbOpen ==
    /\ ~Running /\ ~copen
    /\ copen' = TRUE
    /\ seq' = {} /\ seqFailed' = FALSE
    /\ UNCHANGED <<durable, pend, active, stack, ncalls, last>>
    /\ UNCHANGED <<argVars, thrVars>>

GetDbClose ==
    /\ ~Running /\ copen
    /\ copen' = FALSE
    /\ Discard(RequestSession)
    /\ UNCHANGED <<durable, stack, ncalls, last, seq, seqFailed>>
    /\ UNCHANGED <<argVars, thrVars>>

GivenChoices == {None} \cup (IF copen THEN {RequestSession} ELSE {})

Call(f, given, style) ==
    /\ ~Running /\ ncalls < MaxCalls
    /\ LET a == CallArgs(f, given, style)
       IN  stack' = <<Enter(f, a[1], a[2], ncalls + 1, NoInp, durable, given)>>
    /\ ncalls' = ncalls + 1
    /\ UNCHANGED <<durable, pend, active, copen, last, seq, seqFailed>>
    /\ UNCHANGED <<argVars, thrVars>>

----------------------------------------------------------------------------
(* The call of func: the bodies of the operations of Base and User.        *)

BodyStmtOk ==
    /\ Running /\ InBody(Top) /\ Top.ip <= Len(Body(Top.f))
    /\ Instr(Top) = "stmt"
    /\ pend' = [pend EXCEPT ![Top.fdb] = Append(@, [k |-> "eff", id |-> Top.id])]
    /\ Begin(Top.fdb)
    /\ seq' = IF Top.fdb = RequestSession THEN seq \cup {Top.id} ELSE seq
    /\ stack' = SetTop([Top EXCEPT !.ip = @ + 1])
    /\ UNCHANGED <<durable, copen, ncalls, last, seqFailed>>
    /\ UNCHANGED <<argVars, thrVars>>

BodyReadOk ==
    /\ Running /\ InBody(Top) /\ Top.ip <= Len(Body(Top.f))
    /\ Instr(Top) = "read"
    /\ Begin(Top.fdb)
    /\ stack' = SetTop([Top EXCEPT !.ip = @ + 1])
    /\ UNCHANGED <<durable, pend, copen, ncalls, last, seq, seqFailed>>
    /\ UNCHANGED <<argVars, thrVars>>

BodyRaise ==
    /\ Running /\ InBody(Top) /\ Top.ip <= Len(Body(Top.f))
    /\ Instr(Top) \in {"stmt", "read"}
    /\ Begin(Top.fdb)
    /\ stack' = SetTop(Raise(Top, [k |-> "stmt", by |-> Top.id]))
    /\ UNCHANGED <<durable, pend, copen, ncalls, last, seq, seqFailed>>
    /\ UNCHANGED <<argVars, thrVars>>

BodyCall ==
    /\ Running /\ InBody(Top) /\ Top.ip <= Len(Body(Top.f))
    /\ IsCall(Instr(Top))
    /\ LET g == Callee(Instr(Top))
           a == CallArgs(g, Top.fdb, "pos")
       IN  stack' = Append(stack,
                       Enter(g, a[1], a[2], ncalls + 1, NoInp, durable, Top.fdb))
    /\ ncalls' = ncalls + 1
    /\ UNCHANGED <<durable, pend, active, copen, last, seq, seqFailed>>
    /\ UNCHANGED <<argVars, thrVars>>

BodyUserFound ==
    /\ Running /\ InBody(Top) /\ Top.ip <= Len(Body(Top.f))
    /\ Instr(Top) = "ifuser"
    /\ stack' = SetTop([Top EXCEPT !.ip = @ + 1])
    /\ UNCHANGED <<durable, pend, active, copen, ncalls, last, seq, seqFailed>>
    /\ UNCHANGED <<argVars, thrVars>>

BodyUserMissing ==
    /\ Running /\ InBody(Top) /\ Top.ip <= Len(Body(Top.f))
    /\ Instr(Top) = "ifuser"
    /\ stack' = SetTop(Returned(Top, EarlyResult(Top.f)))
    /\ UNCHANGED <<durable, pend, active, copen, ncalls, last, seq, seqFailed>>
    /\ UNCHANGED <<argVars, thrVars>>

BodyEnd ==
    /\ Running /\ InBody(Top) /\ Top.ip = Len(Body(Top.f)) + 1
    /\ stack' = SetTop(Returned(Top, BodyResult(Top.f)))
    /\ UNCHANGED <<durable, pend, active, copen, ncalls, last, seq, seqFailed>>
    /\ UNCHANGED <<argVars, thrVars>>

----------------------------------------------------------------------------
(* db_update.wrapper and db_query.wrapper after func.                      *)

Event(fr, e) == [fr EXCEPT !.ev = Append(@, e)]

CommitOk ==
    /\ Running /\ Top.pc = "commit"
    /\ durable' = ApplyAll(durable, pend[Top.db])
    /\ Discard(Top.db)
    /\ stack' = SetTop(Event([Top EXCEPT !.pc = "finally"], "commit"))
    /\ UNCHANGED <<copen, ncalls, last, seq, seqFailed>>
    /\ UNCHANGED <<argVars, thrVars>>

CommitRaise ==
    /\ Running /\ Top.pc = "commit"
    /\ stack' = SetTop(Event(Raise(Top, [k |-> "commit", by |-> Top.id]),
                             "commit_raise"))
    /\ UNCHANGED <<durable, pend, active, copen, ncalls, last, seq, seqFailed>>
    /\ UNCHANGED <<argVars, thrVars>>

RollbackOk ==
    /\ Running /\ Top.pc = "except"
    /\ Discard(Top.db)
    /\ stack' = SetTop(Event([Top EXCEPT !.pc = "finally", !.exc = Top.err],
                             "rollback"))
    /\ UNCHANGED <<durable, copen, ncalls, last, seq, seqFailed>>
    /\ UNCHANGED <<argVars, thrVars>>

\* db.rollback() raises: its exception replaces err, the finally still runs
RollbackRaise ==
    /\ Running /\ Top.pc = "except"
    /\ stack' = SetTop(Event([Top EXCEPT !.pc = "finally",
                                         !.exc = [k |-> "rollback", by |-> Top.id]],
                             "rollback_raise"))
    /\ UNCHANGED <<durable, pend, active, copen, ncalls, last, seq, seqFailed>>
    /\ UNCHANGED <<argVars, thrVars>>

\* faulty variant of Finally: the close in the try block, skipped when an
\* exception passes
FinallyCloseOnSuccessOnly ==
    /\ Running /\ Top.pc = "finally"
    /\ IF Top.close_db /\ Top.exc = NoExc
       THEN /\ Discard(Top.db)
            /\ stack' = SetTop(Event([Top EXCEPT !.pc = "done"], "close"))
       ELSE /\ UNCHANGED <<pend, active>>
            /\ stack' = SetTop([Top EXCEPT !.pc = "done"])
    /\ UNCHANGED <<durable, copen, ncalls, last, seq, seqFailed>>
    /\ UNCHANGED <<argVars, thrVars>>

Finally ==
    /\ Running /\ Top.pc = "finally"
    /\ IF Top.close_db
       THEN /\ Discard(Top.db)
            /\ stack' = SetTop(Event([Top EXCEPT !.pc = "done"], "close"))
       ELSE /\ UNCHANGED <<pend, active>>
            /\ stack' = SetTop([Top EXCEPT !.pc = "done"])
    /\ UNCHANGED <<durable, copen, ncalls, last, seq, seqFailed>>
    /\ UNCHANGED <<argVars, thrVars>>

\* the wrapper returns result, or the exception leaves it, into the calling body
ReturnToParent ==
    /\ Len(stack) >= 2 /\ Top.pc = "done"
    /\ LET parent == stack[Len(stack) - 1]
       IN  stack' = Append(SubSeq(stack, 1, Len(stack) - 2),
                           IF Top.exc = NoExc
                           THEN [parent EXCEPT !.ip = @ + 1]
                           ELSE Raise(parent, Top.exc))
    /\ UNCHANGED <<durable, pend, active, copen, ncalls, last, seq, seqFailed>>
    /\ UNCHANGED <<argVars, thrVars>>

ReturnToCaller ==
    /\ Len(stack) = 1 /\ Top.pc = "done"
    /\ stack' = <<>>
    /\ last' = IF Top.inp # NoInp \/ Top.f = "relevancy_update" THEN Top ELSE last
    /\ seqFailed' = (seqFailed \/ (Top.given = RequestSession /\ Top.exc # NoExc))
    /\ UNCHANGED <<durable, pend, active, copen, ncalls, seq>>
    /\ UNCHANGED <<argVars, thrVars>>

----------------------------------------------------------------------------
(* Spec: the wrappers around the operations of Base and User.              *)

SpecFuncs == (UpdateFuncs \cup QueryFuncs) \ {"relevancy_update", "update_all_username"}

\* the main thread runs; no other thread has a call under way
InitThr ==
    /\ tid = 1
    /\ parked = [t \in Threads |-> <<>>]

InitDb ==
    /\ InitThr
    /\ durable = InitDurable
    /\ pend = [s \in Sessions |-> <<>>]
    /\ active = [s \in Sessions |-> FALSE]
    /\ copen = FALSE
    /\ stack = <<>>
    /\ ncalls = 0
    /\ last = NoFrame
    /\ seq = {}
    /\ seqFailed = FALSE

NoOut == [done |-> FALSE, db |-> None, close_db |-> FALSE,
          args |-> <<>>, kwargs |-> <<>>]

InitArgsIdle ==
    /\ a_kind = "static"
    /\ a_args = <<>>
    /\ a_kwargs = <<>>
    /\ a_out = NoOut

Init == InitDb /\ InitArgsIdle

Wrapper ==
    \/ CommitOk
    \/ CommitRaise
    \/ RollbackOk
    \/ RollbackRaise
    \/ Finally
    \/ ReturnToCaller

Next ==
    \/ GetDbOpen
    \/ GetDbClose
    \/ /\ ~Running /\ ncalls < MaxCalls
       /\ \E f \in SpecFuncs, given \in GivenChoices, style \in {"pos", "kw"} :
             Call(f, given, style)
    \/ BodyStmtOk
    \/ BodyReadOk
    \/ BodyRaise
    \/ BodyCall
    \/ BodyUserFound
    \/ BodyUserMissing
    \/ BodyEnd
    \/ ReturnToParent
    \/ Wrapper

Spec == Init /\ [][Next]_vars

----------------------------------------------------------------------------
(* Base.relevancy_update.  payload and relation_info are dicts: functions  *)
(* on their keys, <<>> when empty; the table lists are sets, only tested   *)
(* for emptiness and membership.                                           *)

\* faulty variant of PyOr: the second operand, whatever the first
PyOrSecond(a, b) == b

\* Python's a or b on strings: a when a is truthy (not empty), else b
PyOr(a, b) == IF a # "" THEN a ELSE b

\* d.get(key, default)
DictGet(d, key, default) == IF key \in DOMAIN d THEN d[key] ELSE default

\* faulty variant of IsEmpty: no dict taken for empty
IsEmptyNever(d) == FALSE

\* not d
IsEmpty(d) == DOMAIN d = {}

\* faulty variant of TopSkip: the exclude list not consulted
TopSkipIncludeOnly(info, table_name) ==
    LET include_tables == DictGet(info, "include_tables", {})
    IN  include_tables # {} /\ table_name \notin include_tables

\* the first-level test of a table: TRUE when the loop continues past it
TopSkip(info, table_name) ==
    LET include_tables == DictGet(info, "include_tables", {})
        exclude_tables == DictGet(info, "exclude_tables", {})
    IN  \/ (include_tables # {} /\ table_name \notin include_tables)
        \/ (exclude_tables # {} /\ table_name \in exclude_tables)

\* the second-level test of a table for one column entry
ColSkip(item, table_name) ==
    LET in_tables     == DictGet(item, "tables", {})
        not_in_tables == DictGet(item, "exclude_tables", {})
    IN  \/ (in_tables # {} /\ table_name \notin in_tables)
        \/ (not_in_tables # {} /\ table_name \in not_in_tables)

\* column in [table_column.name for table_column in table.columns]
HasColumn(table_name, column) == column \in Columns[table_name]

\* relation_info.get("column", {}).items(), in insertion order
ColOrder(info) ==
    LET cols == DictGet(info, "column", <<>>)
        In(c) == c \in DOMAIN cols
    IN  SelectSeq(ColNames, In)

\* the (table, column) pairs in the order the two nested loops reach them
LoopPairs(info) ==
    LET cols == ColOrder(info)
        n == Len(cols)
    IN  [i \in 1..(Len(TableOrder) * n) |->
            <<TableOrder[((i - 1) \div n) + 1], cols[((i - 1) % n) + 1]>>]

\* the pairs db.execute is reached for, in order
Visit(info) ==
    LET Reached(p) ==
            /\ ~TopSkip(info, p[1])
            /\ ~ColSkip(info.column[p[2]], p[1])
            /\ HasColumn(p[1], p[2])
    IN  SelectSeq(LoopPairs(info), Reached)

\* faulty variant of SetAttrs: None values assigned like any other
RECURSIVE SetAttrsAll(_, _)
SetAttrsAll(payload, keys) ==
    IF keys = <<>> THEN <<>>
    ELSE LET k == Head(keys)
         IN  (IF k \in DOMAIN payload
              THEN <<[k |-> "set", key |-> k, val |-> payload[k]]>>
              ELSE <<>>) \o SetAttrsAll(payload, Tail(keys))

\* payload = {k: v for k, v in payload.items() if v is not None}; setattr(self, k, v)
RECURSIVE SetAttrs(_, _)
SetAttrs(payload, keys) ==
    IF keys = <<>> THEN <<>>
    ELSE LET k == Head(keys)
         IN  (IF k \in DOMAIN payload /\ payload[k] # None
              THEN <<[k |-> "set", key |-> k, val |-> payload[k]]>>
              ELSE <<>>) \o SetAttrs(payload, Tail(keys))

InRel(fr) == fr.pc = "body" /\ fr.f = "relevancy_update"

RelCall(given, payload, info) ==
    /\ ~Running /\ ncalls = 0
    /\ LET a == CallArgs("relevancy_update", given, "pos")
       IN  stack' = <<Enter("relevancy_update", a[1], a[2], 1,
                            [payload |-> payload, info |-> info], durable, given)>>
    /\ ncalls' = 1
    /\ UNCHANGED <<durable, pend, active, copen, last, seq, seqFailed>>
    /\ UNCHANGED <<argVars, thrVars>>

\* if not payload or not relation_info: raise
RelArgsRaise ==
    /\ Running /\ InRel(Top) /\ Top.ip = 1
    /\ IsEmpty(Top.inp.payload) \/ IsEmpty(Top.inp.info)
    /\ stack' = SetTop(Raise(Top, [k |-> "args", by |-> Top.id]))
    /\ UNCHANGED <<durable, pend, active, copen, ncalls, last, seq, seqFailed>>
    /\ UNCHANGED <<argVars, thrVars>>

\* the primary update of the entity's attributes
RelPrimary ==
    /\ Running /\ InRel(Top) /\ Top.ip = 1
    /\ ~IsEmpty(Top.inp.payload) /\ ~IsEmpty(Top.inp.info)
    /\ pend' = [pend EXCEPT ![Top.fdb] = @ \o SetAttrs(Top.inp.payload, EntKeys)]
    /\ stack' = SetTop([Top EXCEPT !.ip = 2])
    /\ UNCHANGED <<durable, active, copen, ncalls, last, seq, seqFailed>>
    /\ UNCHANGED <<argVars, thrVars>>

\* the statement of the next pair reached
ExecOp(fr) ==
    LET p == Visit(fr.inp.info)[fr.ip - 1]
        item == fr.inp.info.column[p[2]]
    IN  [k |-> "upd", t |-> p[1], c |-> p[2],
         old |-> DictGet(item, "old_value", None),
         new |-> DictGet(item, "new_value", None)]

AtExec(fr) == InRel(fr) /\ fr.ip >= 2 /\ fr.ip - 1 <= Len(Visit(fr.inp.info))

\* faulty variant of RelExecOk: the statement executed outside the session's
\* transaction (on the engine, autocommit)
RelExecAutocommit ==
    /\ Running /\ AtExec(Top)
    /\ durable' = ApplyOp(durable, ExecOp(Top))
    /\ Begin(Top.fdb)
    /\ stack' = SetTop([Top EXCEPT !.ip = @ + 1,
                                   !.iss = Append(@, <<ExecOp(Top).t, ExecOp(Top).c>>)])
    /\ UNCHANGED <<pend, copen, ncalls, last, seq, seqFailed>>
    /\ UNCHANGED <<argVars, thrVars>>

\* db.execute(update_statement) on the session of the call
RelExecOk ==
    /\ Running /\ AtExec(Top)
    /\ pend' = [pend EXCEPT ![Top.fdb] = Append(@, ExecOp(Top))]
    /\ Begin(Top.fdb)
    /\ stack' = SetTop([Top EXCEPT !.ip = @ + 1,
                                   !.iss = Append(@, <<ExecOp(Top).t, ExecOp(Top).c>>)])
    /\ UNCHANGED <<durable, copen, ncalls, last, seq, seqFailed>>
    /\ UNCHANGED <<argVars, thrVars>>

RelExecRaise ==
    /\ Running /\ AtExec(Top)
    /\ Begin(Top.fdb)
    /\ stack' = SetTop(Raise(Top, [k |-> "exec", by |-> Top.id]))
    /\ UNCHANGED <<durable, pend, copen, ncalls, last, seq, seqFailed>>
    /\ UNCHANGED <<argVars, thrVars>>

RelReturn ==
    /\ Running /\ InRel(Top) /\ Top.ip = Len(Visit(Top.inp.info)) + 2
    /\ stack' = SetTop(Returned(Top, "True"))
    /\ UNCHANGED <<durable, pend, active, copen, ncalls, last, seq, seqFailed>>
    /\ UNCHANGED <<argVars, thrVars>>

----------------------------------------------------------------------------
(* SpecRel: one call of relevancy_update, on an allocated session or on    *)
(* the request's, for every payload and relation_info of the sets below.   *)

FilterLists == {{}, {"A"}, {"B"}, {"C"}, {"A", "B"}}

Items ==
    {it \in [old_value : Vals, new_value : Vals,
             include_tables : FilterLists, exclude_tables : FilterLists] :
        it.old_value # it.new_value}

ColumnDicts == UNION {[{c} -> Items] : c \in {"x", "y"}}

Infos ==
    [include_tables : FilterLists, exclude_tables : FilterLists,
     column : ColumnDicts]

SomePayload == [name |-> "n1", email |-> None]

\* the calls: a payload with every relation_info, and the calls one of whose
\* dicts is empty
RelInputs ==
    ({SomePayload} \X Infos)
        \cup {<<(<<>>), (<<>>)>>, <<SomePayload, (<<>>)>>}
        \cup {<<(<<>>), info>> : info \in {i \in Infos : i.include_tables = {"A", "B"}
                                                      /\ i.exclude_tables = {}
                                                      /\ i.column \in [{"x"} -> Items]
                                                      /\ i.column["x"].include_tables = {}
                                                      /\ i.column["x"].exclude_tables = {}}}

NextRel ==
    \/ GetDbOpen
    \/ GetDbClose
    \/ /\ ~Running /\ ncalls = 0
       /\ \E given \in GivenChoices, inp \in RelInputs : RelCall(given, inp[1], inp[2])
    \/ RelArgsRaise
    \/ RelPrimary
    \/ RelExecOk
    \/ RelExecRaise
    \/ RelReturn
    \/ Wrapper

SpecRel == Init /\ [][NextRel]_vars

----------------------------------------------------------------------------
(* SpecArgs: the wrapper's session acquisition on every call shape: a      *)
(* static operation (session first) or a method (receiver, then session),  *)
(* any positional and keyword arguments.                                   *)

Kinds == {"static", "method"}
ArgVals == {None, "v", RequestSession}
KwNames == {"db", "name"}

SeqsUpTo(S, n) == UNION {[1..k -> S] : k \in 0..n}

ArgLists(kind) ==
    IF kind = "static"
    THEN SeqsUpTo(ArgVals, MaxArgs)
    ELSE {<<"obj">> \o s : s \in SeqsUpTo(ArgVals, MaxArgs - 1)}

KwLists ==
    {s \in SeqsUpTo(KwNames \X ArgVals, Cardinality(KwNames)) :
        \A i, j \in 1..Len(s) : s[i][1] = s[j][1] => i = j}

InitArgs ==
    /\ InitDb
    /\ a_kind \in Kinds
    /\ a_args \in ArgLists(a_kind)
    /\ a_kwargs \in KwLists
    /\ a_out = NoOut

ArgsAcquire ==
    /\ ~a_out.done
    /\ LET a == Acquire(a_args, a_kwargs)
       IN  a_out' = [done |-> TRUE, db |-> a.db, close_db |-> a.close_db,
                     args |-> a.args, kwargs |-> a.kwargs]
    /\ UNCHANGED <<a_kind, a_args, a_kwargs>>
    /\ UNCHANGED <<dbVars, thrVars>>

NextArgs == ArgsAcquire

SpecArgs == InitArgs /\ [][NextArgs]_vars

----------------------------------------------------------------------------
(* Properties of the wrappers.                                             *)

Count(ev, e) == Cardinality({i \in 1..Len(ev) : ev[i] = e})
Frames == {stack[i] : i \in 1..Len(stack)}
WrapperEvents == {"commit", "commit_raise", "rollback", "rollback_raise", "close"}
Touched(fr) == {fr.ev[i] : i \in 1..Len(fr.ev)} \cap WrapperEvents

\* C1: a call without a session among its arguments allocates exactly one
\* session and closes it exactly once on every path (normal return, inner
\* raise, commit raise, rollback raise); when the call has returned or raised
\* the allocated session holds no transaction and no pending statement.
C1_OneAllocOneClose ==
    /\ \A fr \in Frames :
          fr.given = None =>
             /\ fr.db = ScopedSession
             /\ Count(fr.ev, "alloc") = 1
             /\ Count(fr.ev, "close") = (IF fr.pc = "done" THEN 1 ELSE 0)
             /\ fr.pc = "done" =>
                   /\ fr.ev[Len(fr.ev)] = "close"
                   /\ pend[fr.db] = <<>>
                   /\ ~active[fr.db]
    /\ ~Running => (pend[ScopedSession] = <<>> /\ ~active[ScopedSession])

\* C1 witness: a call without a session has raised out of a failed rollback
\* that followed a failed commit, and its session is closed
C1_Witness ==
    /\ Running /\ Top.given = None /\ Top.pc = "done"
    /\ Top.err.k = "commit" /\ Top.exc.k = "rollback"
    /\ Count(Top.ev, "close") = 1

\* C2 as stated: a call given the caller's session never closes, commits or
\* rolls back that session.
C2_BorrowedUntouched ==
    \A fr \in Frames : fr.given # None => Touched(fr) = {}

\* C3 as stated: once a call of the caller's sequence on its own session has
\* failed, no write of the sequence is in the durable store.
C3_SequenceAtomic ==
    seqFailed => (seq \cap durable.eff = {})

\* C8 as stated: under db_update the failure the caller receives is the
\* original one, whenever the inner operation or the commit raised.
C8_OriginalFailure ==
    \A fr \in Frames :
       (Policy(fr.f) = "update" /\ fr.pc = "done" /\ fr.err # NoExc)
          => fr.exc = fr.err

RolledBackThenClosed(fr) ==
    LET n == Len(fr.ev)
        r == IF fr.close_db THEN n - 1 ELSE n
    IN  /\ r >= 1
        /\ fr.ev[r] \in {"rollback", "rollback_raise"}
        /\ Count(fr.ev, "rollback") + Count(fr.ev, "rollback_raise") = 1
        /\ fr.close_db => fr.ev[n] = "close"
        /\ (fr.given = None) = fr.close_db

\* C8 (amended): under db_update, when the inner operation or the commit
\* raised, rollback was performed once before the failure leaves the wrapper,
\* no commit of the call took effect, an allocated session is closed after the
\* rollback, and a failure reaches the caller: the original one when the
\* rollback completed, the rollback's own failure when the rollback raised.
C8_RollbackThenReraise ==
    \A fr \in Frames :
       (Policy(fr.f) = "update" /\ fr.pc = "done" /\ fr.err # NoExc) =>
          /\ RolledBackThenClosed(fr)
          /\ Count(fr.ev, "commit") = 0
          /\ fr.id \notin durable.eff
          /\ fr.exc # NoExc
          /\ Count(fr.ev, "rollback") = 1 => fr.exc = fr.err
          /\ Count(fr.ev, "rollback_raise") = 1
                => fr.exc = [k |-> "rollback", by |-> fr.id]

\* C8 witness: the commit of a call without a session raised, the rollback
\* completed and the session was closed; the commit's failure leaves the wrapper
C8_Witness ==
    /\ Running /\ Top.pc = "done" /\ Policy(Top.f) = "update"
    /\ Top.close_db /\ Top.err.k = "commit" /\ Top.exc = Top.err
    /\ Top.ev = <<"alloc", "commit_raise", "rollback", "close">>

\* C9: under db_query the wrapper never commits and never rolls back; when the
\* inner operation raised, the same failure leaves the wrapper, after the
\* session was closed if the wrapper allocated it.
C9_QueryNoCommitNoRollback ==
    \A fr \in Frames :
       Policy(fr.f) = "query" =>
          /\ Touched(fr) \subseteq {"close"}
          /\ (fr.pc = "done" /\ fr.err # NoExc) =>
                /\ fr.exc = fr.err
                /\ fr.given = None =>
                      (Count(fr.ev, "close") = 1 /\ ~active[ScopedSession])
          /\ (fr.pc = "done" /\ fr.err = NoExc) => fr.exc = NoExc
          /\ fr.given # None => Touched(fr) = {}

\* C9 witness: a query without a session raised and its session was closed
C9_Witness ==
    /\ Running /\ Top.pc = "done" /\ Policy(Top.f) = "query"
    /\ Top.given = None /\ Top.err.k = "stmt" /\ Top.exc = Top.err
    /\ Top.ev = <<"alloc", "close">>

----------------------------------------------------------------------------
(* Properties of relevancy_update.                                         *)

RelFrames == {fr \in Frames \cup {last} : fr.f = "relevancy_update"}
Issued(fr) == {fr.iss[i] : i \in 1..Len(fr.iss)}

\* C4: when a propagation update of relevancy_update failed, then once the
\* call has raised and ever after, the durable store is what it was before the
\* call (neither the primary update nor an issued propagation update is in
\* it), on an allocated session and on the caller's alike; a failure reaches
\* the caller, and when the rollback completed the session holds no statement.
C4_FailedPropagationNotDurable ==
    \A fr \in RelFrames :
       (fr.pc = "done" /\ fr.err.k = "exec") =>
          /\ durable = fr.d0
          /\ fr.exc # NoExc
          /\ fr.exc = fr.err => pend[fr.db] = <<>>

\* C4 witness: a call on the request's session has raised after its primary
\* update and at least one propagation update were issued
C4_Witness ==
    /\ ~Running /\ last.f = "relevancy_update" /\ last.err.k = "exec"
    /\ last.given = RequestSession /\ Len(last.iss) >= 1
    /\ last.exc = last.err

\* C5 as stated: a (table, column) pair is updated only if the table passes
\* the column entry's own include_tables / exclude_tables lists.
C5_ColumnFilter ==
    \A fr \in RelFrames :
       \A p \in Issued(fr) :
          LET item == fr.inp.info.column[p[2]]
          IN  /\ item.include_tables # {} => p[1] \in item.include_tables
              /\ item.exclude_tables # {} => p[1] \notin item.exclude_tables

\* C6: no propagation update is issued against a table that fails the
\* top-level filter or lacks the column; and when the call has issued all its
\* updates, every table with the column that is not in the top-level exclude
\* list, under an empty top-level include list and empty column lists, got one.
C6_TopFilter ==
    \A fr \in RelFrames :
       LET info == fr.inp.info
       IN  /\ \A p \in Issued(fr) :
                 /\ info.include_tables # {} => p[1] \in info.include_tables
                 /\ p[1] \notin info.exclude_tables
                 /\ p[2] \in Columns[p[1]]
                 /\ p[2] \in DOMAIN info.column
           /\ fr.res = "True" =>
                 \A t \in Tables : \A c \in DOMAIN info.column :
                    ( /\ info.include_tables = {}
                      /\ t \notin info.exclude_tables
                      /\ c \in Columns[t]
                      /\ info.column[c].include_tables = {}
                      /\ info.column[c].exclude_tables = {} )
                       => <<t, c>> \in Issued(fr)

\* C6 witness: include_tables = [A, B], exclude_tables = [B] and column x: the
\* call returned having updated A only
C6_Witness ==
    /\ Running /\ Top.f = "relevancy_update" /\ Top.pc = "done" /\ Top.exc = NoExc
    /\ Top.inp.info.include_tables = {"A", "B"}
    /\ Top.inp.info.exclude_tables = {"B"}
    /\ Top.iss = << <<"A", "x">> >>

\* the documented eligibility of a (table, column) pair
Eligible(info, t, c) ==
    /\ c \in DOMAIN info.column
    /\ c \in Columns[t]
    /\ info.include_tables # {} => t \in info.include_tables
    /\ t \notin info.exclude_tables
    /\ info.column[c].include_tables # {} => t \in info.column[c].include_tables
    /\ t \notin info.column[c].exclude_tables

PayloadApplied(ent, payload) ==
    [k \in DOMAIN ent |->
        IF k \in DOMAIN payload /\ payload[k] # None THEN payload[k] ELSE ent[k]]

\* C7 as stated: after a successful relevancy_update exactly the rows of the
\* eligible pairs that held old_value hold new_value, every other cell is
\* unchanged, the entity carries the non-null payload values and the call
\* returned true.
C7_ExactRewrite ==
    \A fr \in RelFrames :
       (fr.pc = "done" /\ fr.exc = NoExc) =>
          LET info == fr.inp.info
          IN  /\ fr.res = "True"
              /\ durable.ent = PayloadApplied(fr.d0.ent, fr.inp.payload)
              /\ \A t \in Tables : \A r \in Rows : \A c \in Columns[t] :
                    durable.tbl[t][r][c] =
                       IF Eligible(info, t, c)
                             /\ fr.d0.tbl[t][r][c] = info.column[c].old_value
                       THEN info.column[c].new_value
                       ELSE fr.d0.tbl[t][r][c]

----------------------------------------------------------------------------
(* Properties of the session substitution.                                 *)

\* the position of the session among the positional arguments
Slot(kind) == IF kind = "static" THEN 1 ELSE 2

NoSessionGiven ==
    /\ \A i \in 1..Len(a_args) : ~IsSession(a_args[i])
    /\ \A i \in 1..Len(a_kwargs) : ~IsSession(a_kwargs[i][2])

\* the function receives the allocated session as its session argument
SessionInSlot ==
    IF Len(a_out.args) >= Slot(a_kind)
    THEN a_out.args[Slot(a_kind)] = ScopedSession
         /\ "db" \notin KwKeys(a_out.kwargs)
    ELSE /\ Len(a_out.args) = Slot(a_kind) - 1
         /\ "db" \in KwKeys(a_out.kwargs)
         /\ KwGet(a_out.kwargs, "db") = ScopedSession

NothingLost ==
    /\ \A i \in 1..Len(a_args) :
          a_args[i] # None =>
             (i <= Len(a_out.args) /\ a_out.args[i] = a_args[i])
    /\ \A i \in 1..Len(a_kwargs) :
          a_kwargs[i][2] # None =>
             \E j \in 1..Len(a_out.kwargs) : a_out.kwargs[j] = a_kwargs[i]

PlaceHeld ==
    \/ /\ Len(a_args) >= Slot(a_kind)
       /\ a_args[Slot(a_kind)] = None
       /\ "db" \notin KwKeys(a_kwargs)
    \/ /\ Len(a_args) = Slot(a_kind) - 1
       /\ "db" \in KwKeys(a_kwargs)
       /\ KwGet(a_kwargs, "db") = None

----------------------------------------------------------------------------
(* Further properties of the wrappers.                                     *)

Commits(fr) == Count(fr.ev, "commit") + Count(fr.ev, "commit_raise")

\* C17: under db_update, once the inner operation has returned normally the
\* wrapper attempts commit exactly once, on the session in use (the allocated
\* one, or the one the caller supplied); no commit is attempted while the
\* inner operation runs, the commit precedes any close of the session, and a
\* commit that completed made the call's write durable.
C17_CommitOnceOnReturn ==
    \A fr \in Frames :
       Policy(fr.f) = "update" =>
          /\ fr.pc = "body" => (fr.res = None /\ Commits(fr) = 0)
          /\ fr.res # None =>
                /\ fr.db = (IF fr.given = None THEN ScopedSession ELSE fr.given)
                /\ Commits(fr) = (IF fr.pc = "commit" THEN 0 ELSE 1)
                /\ \A i, j \in 1..Len(fr.ev) :
                      (fr.ev[i] = "close" /\ fr.ev[j] \in {"commit", "commit_raise"})
                         => j < i
                /\ (Count(fr.ev, "commit") = 1 /\ Body(fr.f) = <<"stmt">>)
                      => fr.id \in durable.eff

\* C17 witness: a call given the request's session has returned: its wrapper
\* committed that session once and did not close it
C17_Witness ==
    /\ Running /\ Top.pc = "done" /\ Policy(Top.f) = "update"
    /\ Top.given = RequestSession /\ Top.res = "True"
    /\ Top.ev = <<"commit">> /\ Top.id \in durable.eff

----------------------------------------------------------------------------
(* Further properties of relevancy_update.                                 *)

\* C12: relevancy_update called with an empty payload or an empty
\* relation_info raises to the caller and changes nothing: no attribute is
\* set, no propagation update is issued, no commit is attempted, the durable
\* store is what it was, and a session the wrapper allocated is closed.
C12_EmptyArgsNoMutation ==
    \A fr \in RelFrames :
       (DOMAIN fr.inp.payload = {} \/ DOMAIN fr.inp.info = {}) =>
          /\ fr.iss = <<>>
          /\ pend[fr.db] = <<>>
          /\ durable = fr.d0
          /\ Commits(fr) = 0
          /\ fr.res = None
          /\ fr.pc = "done" =>
                /\ fr.err = [k |-> "args", by |-> fr.id]
                /\ fr.exc # NoExc
                /\ fr.given = None =>
                      (fr.ev[Len(fr.ev)] = "close" /\ ~active[ScopedSession])

\* C12 witness: a call without a session, with an empty payload and a
\* non-empty relation_info, has raised; its session was rolled back and closed
C12_Witness ==
    /\ ~Running /\ last.f = "relevancy_update"
    /\ DOMAIN last.inp.payload = {} /\ DOMAIN last.inp.info # {}
    /\ last.given = None /\ last.exc = [k |-> "args", by |-> last.id]
    /\ last.ev = <<"alloc", "rollback", "close">>

----------------------------------------------------------------------------
(* SpecOrd: one call of relevancy_update whose relation_info names both    *)
(* columns, on every content of the two-column table A.                    *)

OrdTbls ==
    {[InitTbl EXCEPT !["A"] = a] : a \in [Rows -> [Columns["A"] -> Vals]]}

OrdItems ==
    {it \in Items : it.include_tables = {} /\ it.exclude_tables = {}}

OrdInfos ==
    [include_tables : FilterLists, exclude_tables : {{}, {"B"}},
     column : [{"x", "y"} -> OrdItems]]

OrdInputs == ({SomePayload} \X OrdInfos) \cup {<<(<<>>), (<<>>)>>}

InitOrd ==
    /\ durable \in {[InitDurable EXCEPT !.tbl = t] : t \in OrdTbls}
    /\ pend = [s \in Sessions |-> <<>>]
    /\ active = [s \in Sessions |-> FALSE]
    /\ copen = FALSE
    /\ stack = <<>>
    /\ ncalls = 0
    /\ last = NoFrame
    /\ seq = {}
    /\ seqFailed = FALSE
    /\ InitArgsIdle
    /\ InitThr

NextOrd ==
    \/ GetDbOpen
    \/ GetDbClose
    \/ /\ ~Running /\ ncalls = 0
       /\ \E given \in GivenChoices, inp \in OrdInputs : RelCall(given, inp[1], inp[2])
    \/ RelArgsRaise
    \/ RelPrimary
    \/ RelExecOk
    \/ RelExecRaise
    \/ RelReturn
    \/ Wrapper

SpecOrd == InitOrd /\ [][NextOrd]_vars

\* the propagation statements of a call, in the order the loops issue them
VisitOps(info) ==
    [i \in 1..Len(Visit(info)) |->
        LET p == Visit(info)[i]
            item == info.column[p[2]]
        IN  [k |-> "upd", t |-> p[1], c |-> p[2],
             old |-> DictGet(item, "old_value", None),
             new |-> DictGet(item, "new_value", None)]]

Perms(n) == {p \in [1..n -> 1..n] : \A i, j \in 1..n : p[i] = p[j] => i = j}

\* C18: the tables a successful relevancy_update leaves are those reached by
\* issuing its (table, column) updates in any other order: every permutation
\* of the updates, applied to the contents before the call, gives the final
\* contents of every table.
C18_OrderIndependent ==
    \A fr \in RelFrames :
       (fr.pc = "done" /\ fr.exc = NoExc) =>
          LET ops == VisitOps(fr.inp.info)
          IN  \A p \in Perms(Len(ops)) :
                 ApplyAll(fr.d0, [i \in 1..Len(ops) |-> ops[p[i]]]).tbl = durable.tbl

\* C18 witness: a call that updated both columns of A, on a row of A whose x
\* holds the old value of x and whose y holds the old value of y, has returned
C18_Witness ==
    /\ Running /\ Top.f = "relevancy_update" /\ Top.pc = "done" /\ Top.exc = NoExc
    /\ {<<"A", "x">>, <<"A", "y">>} \subseteq Issued(Top)
    /\ \E r \in Rows :
          /\ Top.d0.tbl["A"][r]["x"] = Top.inp.info.column["x"].old_value
          /\ Top.d0.tbl["A"][r]["y"] = Top.inp.info.column["y"].old_value
          /\ Top.d0.tbl["A"][r]["x"] # Top.d0.tbl["A"][r]["y"]

----------------------------------------------------------------------------
(* SpecNest: a composed operation called without a session; its body calls *)
(* a wrapped operation without passing a session.  Both wrappers take the  *)
(* thread's session from ScopedSession().                                  *)

\* the nested call: None in the session's place
BodyCallNoSession ==
    /\ Running /\ InBody(Top) /\ Top.ip <= Len(Body(Top.f))
    /\ Instr(Top) = "callnone"
    /\ \E g \in NestedCallees :
          LET a == CallArgs(g, None, "pos")
          IN  stack' = Append(stack,
                          Enter(g, a[1], a[2], ncalls + 1, NoInp, durable, None))
    /\ ncalls' = ncalls + 1
    /\ UNCHANGED <<durable, pend, active, copen, last, seq, seqFailed>>
    /\ UNCHANGED <<argVars, thrVars>>

NextNest ==
    \/ /\ ~Running /\ ncalls < MaxCalls
       /\ \E f \in ComposedFuncs, style \in {"pos", "kw"} : Call(f, None, style)
    \/ BodyStmtOk
    \/ BodyReadOk
    \/ BodyRaise
    \/ BodyCall
    \/ BodyCallNoSession
    \/ BodyUserFound
    \/ BodyUserMissing
    \/ BodyEnd
    \/ ReturnToParent
    \/ Wrapper

SpecNest == Init /\ [][NextNest]_vars

\* C11 as stated: a call nested in an operation that runs on the session its
\* own wrapper allocated, made without a session, neither commits nor closes
\* that session before the outer operation finishes; and when the outer
\* operation has raised, neither its writes nor the nested call's are durable.
C11_NestedSharesTransaction ==
    /\ \A i \in 2..Len(stack) :
          ( /\ stack[i].given = None
            /\ stack[i-1].close_db
            /\ stack[i-1].f \in ComposedFuncs )
             => /\ stack[i].db = stack[i-1].db
                /\ Touched(stack[i]) \cap {"commit", "commit_raise", "close"} = {}
    /\ \A fr \in Frames :
          (fr.f \in ComposedFuncs /\ fr.pc = "done" /\ fr.exc # NoExc)
             => \A id \in durable.eff : id < fr.id

----------------------------------------------------------------------------
(* User.update_all_username.  The frame's iss records what the loop did    *)
(* with each table: <<table, "skipped">> when the guard continued past it, *)
(* <<table, "nocolumn">> when it has no username column, and               *)
(* <<table, "username">> when the update statement was executed.           *)

InName(fr) == fr.pc = "body" /\ fr.f = "update_all_username"

NameCall(given, payload, old, new) ==
    /\ ~Running /\ ncalls = 0
    /\ LET a == CallArgs("update_all_username", given, "pos")
       IN  stack' = <<Enter("update_all_username", a[1], a[2], 1,
                            [payload |-> payload, old_username |-> old,
                             new_username |-> new],
                            durable, given)>>
    /\ ncalls' = 1
    /\ UNCHANGED <<durable, pend, active, copen, last, seq, seqFailed>>
    /\ UNCHANGED <<argVars, thrVars>>

\* if not payload: return False
NameNoPayload ==
    /\ Running /\ InName(Top) /\ Top.ip = 1
    /\ IsEmpty(Top.inp.payload)
    /\ stack' = SetTop(Returned(Top, "False"))
    /\ UNCHANGED <<durable, pend, active, copen, ncalls, last, seq, seqFailed>>
    /\ UNCHANGED <<argVars, thrVars>>

\* the update of the user's own attributes
NamePrimary ==
    /\ Running /\ InName(Top) /\ Top.ip = 1
    /\ ~IsEmpty(Top.inp.payload)
    /\ pend' = [pend EXCEPT ![Top.fdb] = @ \o SetAttrs(Top.inp.payload, EntKeys)]
    /\ stack' = SetTop([Top EXCEPT !.ip = 2])
    /\ UNCHANGED <<durable, active, copen, ncalls, last, seq, seqFailed>>
    /\ UNCHANGED <<argVars, thrVars>>

\* the table the loop is at
AtTable(fr) == InName(fr) /\ fr.ip >= 2 /\ fr.ip - 1 <= Len(NameTableOrder)
NameTable(fr) == NameTableOrder[fr.ip - 1]

\* table_name == ('siteuserdata' or 'user')
NameGuard(table_name) == table_name = PyOr("siteuserdata", "user")

\* 'username' in [column.name for column in table.columns]
HasUsername(table_name) == "username" \in NameColumns[table_name]

Step(fr, what) ==
    [fr EXCEPT !.ip = @ + 1, !.iss = Append(@, <<NameTable(fr), what>>)]

NameSkip ==
    /\ Running /\ AtTable(Top)
    /\ NameGuard(NameTable(Top))
    /\ stack' = SetTop(Step(Top, "skipped"))
    /\ UNCHANGED <<durable, pend, active, copen, ncalls, last, seq, seqFailed>>
    /\ UNCHANGED <<argVars, thrVars>>

NameNoColumn ==
    /\ Running /\ AtTable(Top)
    /\ ~NameGuard(NameTable(Top)) /\ ~HasUsername(NameTable(Top))
    /\ stack' = SetTop(Step(Top, "nocolumn"))
    /\ UNCHANGED <<durable, pend, active, copen, ncalls, last, seq, seqFailed>>
    /\ UNCHANGED <<argVars, thrVars>>

\* table.update().where(table.c.username == old_username).values(username=new_username)
NameExecOk ==
    /\ Running /\ AtTable(Top)
    /\ ~NameGuard(NameTable(Top)) /\ HasUsername(NameTable(Top))
    /\ pend' = [pend EXCEPT ![Top.fdb] =
                   Append(@, [k |-> "nupd", t |-> NameTable(Top),
                              old |-> Top.inp.old_username,
                              new |-> Top.inp.new_username])]
    /\ Begin(Top.fdb)
    /\ stack' = SetTop(Step(Top, "username"))
    /\ UNCHANGED <<durable, copen, ncalls, last, seq, seqFailed>>
    /\ UNCHANGED <<argVars, thrVars>>

NameExecRaise ==
    /\ Running /\ AtTable(Top)
    /\ ~NameGuard(NameTable(Top)) /\ HasUsername(NameTable(Top))
    /\ Begin(Top.fdb)
    /\ stack' = SetTop(Raise(Top, [k |-> "exec", by |-> Top.id]))
    /\ UNCHANGED <<durable, pend, copen, ncalls, last, seq, seqFailed>>
    /\ UNCHANGED <<argVars, thrVars>>

NameReturn ==
    /\ Running /\ InName(Top) /\ Top.ip = Len(NameTableOrder) + 2
    /\ stack' = SetTop(Returned(Top, "True"))
    /\ UNCHANGED <<durable, pend, active, copen, ncalls, last, seq, seqFailed>>
    /\ UNCHANGED <<argVars, thrVars>>

----------------------------------------------------------------------------
(* SpecName: one call of update_all_username, on an allocated session or   *)
(* on the request's, with an empty or non-empty payload and every pair of  *)
(* old and new username.                                                   *)

NameSet == {Usernames[i] : i \in 1..Len(Usernames)}

NextName ==
    \/ GetDbOpen
    \/ GetDbClose
    \/ /\ ~Running /\ ncalls = 0
       /\ \E given \in GivenChoices, payload \in {<<>>, SomePayload},
             old \in NameSet, new \in NameSet :
             NameCall(given, payload, old, new)
    \/ NameNoPayload
    \/ NamePrimary
    \/ NameSkip
    \/ NameNoColumn
    \/ NameExecOk
    \/ NameExecRaise
    \/ NameReturn
    \/ Wrapper

SpecName == Init /\ [][NextName]_vars

NameFrames == {fr \in Frames \cup {last} : fr.f = "update_all_username"}

Rewritten(tbl, t, old, new) ==
    [r \in Rows |-> IF tbl[t][r]["username"] = old
                    THEN [tbl[t][r] EXCEPT !["username"] = new]
                    ELSE tbl[t][r]]

\* C19 as stated: the guard skips the table named user and not the table
\* named siteuserdata, whose username column is rewritten like any other.
C19_GuardSkipsUser ==
    \A fr \in NameFrames :
       /\ \A e \in Issued(fr) : e[2] = "skipped" <=> e[1] = "user"
       /\ fr.res = "True" => <<"siteuserdata", "username">> \in Issued(fr)
       /\ (fr.res = "True" /\ fr.pc = "done" /\ fr.exc = NoExc) =>
             durable.ntbl["siteuserdata"] =
                Rewritten(fr.d0.ntbl, "siteuserdata",
                          fr.inp.old_username, fr.inp.new_username)

\* C19 (amended): the guard compares the table name with 'siteuserdata', the
\* value of ('siteuserdata' or 'user'): the table named siteuserdata is the
\* one skipped and its username column is never rewritten; the table named
\* user is not skipped by the guard (it is passed over for having no username
\* column); every other table with a username column has it rewritten from
\* old_username to new_username once the call has returned true.
C19_GuardSkipsSiteuserdata ==
    \A fr \in NameFrames :
       /\ \A e \in Issued(fr) :
             /\ e[2] = "skipped" <=> e[1] = "siteuserdata"
             /\ e[2] = "username" <=> (e[1] # "siteuserdata" /\ HasUsername(e[1]))
       /\ durable.ntbl["siteuserdata"] = fr.d0.ntbl["siteuserdata"]
       /\ fr.res = "True" =>
             Issued(fr) = {<<"user", "nocolumn">>, <<"siteuserdata", "skipped">>,
                           <<"subscribe", "username">>}
       /\ (fr.res = "True" /\ fr.pc = "done" /\ fr.exc = NoExc) =>
             \A t \in NameTables :
                durable.ntbl[t] =
                   IF t # "siteuserdata" /\ HasUsername(t)
                   THEN Rewritten(fr.d0.ntbl, t, fr.inp.old_username,
                                  fr.inp.new_username)
                   ELSE fr.d0.ntbl[t]

\* C19 witness: a call renaming alice to bob has returned true and committed:
\* subscribe is rewritten, siteuserdata still holds alice
C19_Witness ==
    /\ Running /\ Top.f = "update_all_username" /\ Top.pc = "done"
    /\ Top.exc = NoExc /\ Top.res = "True"
    /\ Top.inp.old_username = "alice" /\ Top.inp.new_username = "bob"
    /\ durable.ntbl["subscribe"][1]["username"] = "bob"
    /\ durable.ntbl["siteuserdata"][1]["username"] = "alice"

----------------------------------------------------------------------------
(* The operations of Base and User on the rows of the user table.  The     *)
(* frame's inp holds the call's arguments; pwok and otpok are what         *)
(* verify_password and OtpUtils.check answer for them; got is the row the  *)
(* nested lookup returned.  A result that is a row or None is the set of   *)
(* that row or the empty set.                                              *)

NoUInp ==
    [u |-> 0, rid |-> 0, name |-> None, payload |-> <<>>, otp |-> None,
     secret |-> None, pwok |-> FALSE, otpw |-> None, otpok |-> FALSE, got |-> {}]

\* the store as session s sees it: the committed rows and its own statements
View(s) == ApplyAll(durable, pend[s])

\* Python's truth value of the values used here
Truthy(v) == v \notin {None, "False", ""}

\* .first() of a query on the user table
First(rows) ==
    IF rows = {} THEN {}
    ELSE {CHOOSE r \in rows : \A q \in rows : r.id <= q.id}

ById(usr, rid) == First({r \in usr : r.id = rid})
ByName(usr, name) == First({r \in usr : r.name = name})

\* the statements an update of the object with identity u is flushed as
UserSets(u, payload) ==
    LET sets == SetAttrs(payload, UserKeys)
    IN  [i \in 1..Len(sets) |->
            [k |-> "uset", id |-> u, key |-> sets[i].key, val |-> sets[i].val]]

\* faulty variant of AuthResult: the second factor not asked for
AuthResultNoOtp(rows, pwok, otpw, otpok) ==
    IF rows = {} THEN [ok |-> FALSE, user |-> {}]
    ELSE [ok |-> pwok, user |-> rows]

\* the body of authenticate after the lookup
AuthResult(rows, pwok, otpw, otpok) ==
    IF rows = {} THEN [ok |-> FALSE, user |-> {}]
    ELSE LET user == CHOOSE r \in rows : TRUE
         IN  IF ~pwok THEN [ok |-> FALSE, user |-> rows]
             ELSE IF Truthy(user.is_otp) /\ (~Truthy(otpw) \/ ~otpok)
                  THEN [ok |-> FALSE, user |-> rows]
                  ELSE [ok |-> TRUE, user |-> rows]

InUser(fr, f) == fr.pc = "body" /\ fr.f = f

UCall(f, given, inp) ==
    /\ ~Running
    /\ LET a == CallArgs(f, given, "pos")
       IN  stack' = <<Enter(f, a[1], a[2], ncalls + 1, inp, durable, given)>>
    /\ ncalls' = ncalls + 1
    /\ UNCHANGED <<durable, pend, active, copen, last, seq, seqFailed>>
    /\ UNCHANGED <<argVars, thrVars>>

\* Base.update
UUpdate ==
    /\ Running /\ InUser(Top, "update")
    /\ pend' = [pend EXCEPT ![Top.fdb] = @ \o UserSets(Top.inp.u, Top.inp.payload)]
    /\ Begin(Top.fdb)
    /\ stack' = SetTop(Returned(Top, "True"))
    /\ UNCHANGED <<durable, copen, ncalls, last, seq, seqFailed>>
    /\ UNCHANGED <<argVars, thrVars>>

\* Base.delete
UDelete ==
    /\ Running /\ InUser(Top, "delete")
    /\ pend' = [pend EXCEPT ![Top.fdb] = Append(@, [k |-> "udel", rid |-> Top.inp.rid])]
    /\ Begin(Top.fdb)
    /\ stack' = SetTop(Returned(Top, "True"))
    /\ UNCHANGED <<durable, copen, ncalls, last, seq, seqFailed>>
    /\ UNCHANGED <<argVars, thrVars>>

\* Base.get
UGet ==
    /\ Running /\ InUser(Top, "get")
    /\ Begin(Top.fdb)
    /\ stack' = SetTop(Returned(Top, ById(View(Top.fdb).usr, Top.inp.rid)))
    /\ UNCHANGED <<durable, pend, copen, ncalls, last, seq, seqFailed>>
    /\ UNCHANGED <<argVars, thrVars>>

\* User.get_by_name
UGetByName ==
    /\ Running /\ InUser(Top, "get_by_name")
    /\ Begin(Top.fdb)
    /\ stack' = SetTop(Returned(Top, ByName(View(Top.fdb).usr, Top.inp.name)))
    /\ UNCHANGED <<durable, pend, copen, ncalls, last, seq, seqFailed>>
    /\ UNCHANGED <<argVars, thrVars>>

\* User.authenticate
UAuth ==
    /\ Running /\ InUser(Top, "authenticate")
    /\ Begin(Top.fdb)
    /\ stack' = SetTop(Returned(Top,
                    AuthResult(ByName(View(Top.fdb).usr, Top.inp.name),
                               Top.inp.pwok, Top.inp.otpw, Top.inp.otpok)))
    /\ UNCHANGED <<durable, pend, copen, ncalls, last, seq, seqFailed>>
    /\ UNCHANGED <<argVars, thrVars>>

\* the query or the delete statement of a body raises
URaise ==
    /\ Running /\ Top.pc = "body"
    /\ Top.f \in {"get", "get_by_name", "authenticate", "delete"}
    /\ Begin(Top.fdb)
    /\ stack' = SetTop(Raise(Top, [k |-> "stmt", by |-> Top.id]))
    /\ UNCHANGED <<durable, pend, copen, ncalls, last, seq, seqFailed>>
    /\ UNCHANGED <<argVars, thrVars>>

\* update_otp_by_name: user = self.get_by_name(db, name)
UOtpLookup ==
    /\ Running /\ InUser(Top, "update_otp_by_name") /\ Top.ip = 1
    /\ LET a == CallArgs("get_by_name", Top.fdb, "pos")
       IN  stack' = Append(stack,
                       Enter("get_by_name", a[1], a[2], ncalls + 1,
                             [NoUInp EXCEPT !.name = Top.inp.name],
                             durable, Top.fdb))
    /\ ncalls' = ncalls + 1
    /\ UNCHANGED <<durable, pend, active, copen, last, seq, seqFailed>>
    /\ UNCHANGED <<argVars, thrVars>>

\* update_otp_by_name: user.update(db, {'is_otp': otp, 'otp_secret': secret})
UOtpFound ==
    /\ Running /\ InUser(Top, "update_otp_by_name") /\ Top.ip = 2
    /\ Top.inp.got # {}
    /\ LET a == CallArgs("update", Top.fdb, "pos")
           user == CHOOSE r \in Top.inp.got : TRUE
       IN  stack' = Append(stack,
                       Enter("update", a[1], a[2], ncalls + 1,
                             [NoUInp EXCEPT !.u = user.id,
                                            !.payload = [is_otp |-> Top.inp.otp,
                                                         otp_secret |-> Top.inp.secret]],
                             durable, Top.fdb))
    /\ ncalls' = ncalls + 1
    /\ UNCHANGED <<durable, pend, active, copen, last, seq, seqFailed>>
    /\ UNCHANGED <<argVars, thrVars>>

\* update_otp_by_name: no user of that name
UOtpMissing ==
    /\ Running /\ InUser(Top, "update_otp_by_name") /\ Top.ip = 2
    /\ Top.inp.got = {}
    /\ stack' = SetTop(Returned(Top, EarlyResult(Top.f)))
    /\ UNCHANGED <<durable, pend, active, copen, ncalls, last, seq, seqFailed>>
    /\ UNCHANGED <<argVars, thrVars>>

\* update_otp_by_name: return True after the update
UOtpReturn ==
    /\ Running /\ InUser(Top, "update_otp_by_name") /\ Top.ip = 3
    /\ stack' = SetTop(Returned(Top, BodyResult(Top.f)))
    /\ UNCHANGED <<durable, pend, active, copen, ncalls, last, seq, seqFailed>>
    /\ UNCHANGED <<argVars, thrVars>>

\* a nested call returns its result, or its exception, into update_otp_by_name
UReturnToParent ==
    /\ Len(stack) >= 2 /\ Top.pc = "done"
    /\ LET parent == stack[Len(stack) - 1]
       IN  stack' = Append(SubSeq(stack, 1, Len(stack) - 2),
                           IF Top.exc = NoExc
                           THEN [parent EXCEPT
                                    !.ip = @ + 1,
                                    !.inp.got = IF Top.f = "get_by_name"
                                                THEN Top.res ELSE @]
                           ELSE Raise(parent, Top.exc))
    /\ UNCHANGED <<durable, pend, active, copen, ncalls, last, seq, seqFailed>>
    /\ UNCHANGED <<argVars, thrVars>>

----------------------------------------------------------------------------
(* SpecUser: one call of update, delete, authenticate or                   *)
(* update_otp_by_name on every user table of at most two rows, on an       *)
(* allocated session or on the request's; an update may be followed by a   *)
(* get.                                                                    *)

UPayloads ==
    {[is_otp |-> "True", otp_secret |-> "s2"],
     [is_otp |-> "False", otp_secret |-> None],
     [email |-> "e1", is_otp |-> None],
     [email |-> None, is_otp |-> None, otp_secret |-> None],
     <<>>}

UNames == {UserNameOf[i] : i \in UserIds}

\* an id no row has
NoSuchId == Cardinality(UserIds) + 1

UserCalls(usr) ==
    {[f |-> "update", inp |-> [NoUInp EXCEPT !.u = r.id, !.payload = p]] :
        r \in usr, p \in UPayloads}
    \cup {[f |-> "delete", inp |-> [NoUInp EXCEPT !.rid = i]] :
             i \in UserIds \cup {NoSuchId}}
    \cup {[f |-> "authenticate",
           inp |-> [NoUInp EXCEPT !.name = n, !.pwok = p, !.otpw = w, !.otpok = o]] :
             n \in UNames, p \in BOOLEAN, w \in {None, "", "code"}, o \in BOOLEAN}
    \cup {[f |-> "update_otp_by_name",
           inp |-> [NoUInp EXCEPT !.name = n, !.otp = o, !.secret = x]] :
             n \in UNames, o \in {"False", "True"}, x \in {None, "s1", "s2"}}

InitUser ==
    /\ durable \in {[InitDurable EXCEPT !.usr = t] : t \in UserTables}
    /\ pend = [s \in Sessions |-> <<>>]
    /\ active = [s \in Sessions |-> FALSE]
    /\ copen = FALSE
    /\ stack = <<>>
    /\ ncalls = 0
    /\ last = NoFrame
    /\ seq = {}
    /\ seqFailed = FALSE
    /\ InitArgsIdle
    /\ InitThr

NextUser ==
    \/ GetDbOpen
    \/ GetDbClose
    \/ /\ ~Running /\ ncalls = 0
       /\ \E given \in GivenChoices, c \in UserCalls(durable.usr) :
             UCall(c.f, given, c.inp)
    \/ /\ ~Running /\ ncalls = 1 /\ last.f = "update"
       /\ \E given \in GivenChoices :
             UCall("get", given, [NoUInp EXCEPT !.rid = last.inp.u])
    \/ UUpdate
    \/ UDelete
    \/ UGet
    \/ UGetByName
    \/ UAuth
    \/ URaise
    \/ UOtpLookup
    \/ UOtpFound
    \/ UOtpMissing
    \/ UOtpReturn
    \/ UReturnToParent
    \/ Wrapper

SpecUser == InitUser /\ [][NextUser]_vars

----------------------------------------------------------------------------
(* Properties of the operations on the user table.                         *)

FramesOf(f) == {fr \in Frames \cup {last} : fr.f = f}
RowOf(usr, id) == CHOOSE r \in usr : r.id = id
Succeeded(fr) == fr.pc = "done" /\ fr.exc = NoExc

\* C13: a successful update leaves the row of its entity with exactly the
\* payload's non-null values assigned and every other field, the fields given
\* as null included, as before, and every other row untouched; a get of the
\* same id that follows returns that row.
C13_UpdateAssignsNonNull ==
    /\ \A fr \in FramesOf("update") :
          Succeeded(fr) =>
             LET before == RowOf(fr.d0.usr, fr.inp.u)
             IN  durable.usr = (fr.d0.usr \ {before})
                                  \cup {PayloadApplied(before, fr.inp.payload)}
    /\ \A fr \in Frames :
          (fr.f = "get" /\ Succeeded(fr) /\ last.f = "update" /\ last.exc = NoExc
             /\ fr.inp.rid = last.inp.u)
             => fr.res = {PayloadApplied(RowOf(last.d0.usr, last.inp.u),
                                         last.inp.payload)}

\* C13 witness: update with {email: e1, is_otp: null} of a row whose is_otp is
\* True has returned, and the get that followed has returned the row with the
\* new email and is_otp still True
C13_Witness ==
    /\ Running /\ Top.f = "get" /\ Succeeded(Top)
    /\ last.f = "update" /\ last.exc = NoExc
    /\ last.inp.payload = [email |-> "e1", is_otp |-> None]
    /\ \E r \in Top.res : r.email = "e1" /\ r.is_otp = "True"
    /\ RowOf(last.d0.usr, last.inp.u).email = "e0"

\* C14: delete returns True for every id, also one that matches no row and on
\* an empty table, and then the table holds exactly the rows it held whose id
\* is not that id; a delete raises only when the database statement or the
\* commit failed, and then the table is unchanged.
C14_DeleteReturnsTrue ==
    \A fr \in FramesOf("delete") :
       /\ fr.pc \in {"commit", "finally", "done"} /\ fr.err = NoExc
             => fr.res = "True"
       /\ Succeeded(fr) =>
             /\ fr.res = "True"
             /\ durable.usr = {r \in fr.d0.usr : r.id # fr.inp.rid}
             /\ (\A r \in fr.d0.usr : r.id # fr.inp.rid) => durable.usr = fr.d0.usr
       /\ (fr.pc = "done" /\ fr.exc # NoExc) =>
             /\ fr.err.k \in {"stmt", "commit"}
             /\ durable.usr = fr.d0.usr

\* C14 witness: delete of an id no row has, on an empty table, returned True
C14_Witness ==
    /\ Running /\ Top.f = "delete" /\ Succeeded(Top)
    /\ Top.inp.rid = NoSuchId /\ Top.d0.usr = {}
    /\ Top.res = "True" /\ durable.usr = {}

\* C16: authenticate returns success exactly when a user of that name exists,
\* the password verifies and, if the user has is_otp set, a non-empty code was
\* given and verifies; without such a user it returns (False, None); it
\* returns the user otherwise; it leaves the store and the session's pending
\* statements as they were and its wrapper neither commits nor rolls back.
C16_AuthenticateFailsClosed ==
    \A fr \in FramesOf("authenticate") :
       /\ durable = fr.d0
       /\ pend[fr.db] = <<>>
       /\ Touched(fr) \subseteq {"close"}
       /\ Succeeded(fr) =>
             LET rows == {r \in fr.d0.usr : r.name = fr.inp.name}
             IN  /\ rows = {} => fr.res = [ok |-> FALSE, user |-> {}]
                 /\ fr.res.user = rows
                 /\ fr.res.ok <=>
                       /\ rows # {}
                       /\ fr.inp.pwok
                       /\ \A r \in rows :
                             r.is_otp = "True" =>
                                (fr.inp.otpw \notin {None, ""} /\ fr.inp.otpok)

\* C16 witness: a user with is_otp set, a verifying password and a verifying
\* code: authenticate returned success
C16_Witness ==
    /\ Running /\ Top.f = "authenticate" /\ Succeeded(Top)
    /\ Top.res.ok
    /\ \E r \in Top.res.user : r.is_otp = "True" /\ r.name = Top.inp.name
    /\ Top.inp.otpw = "code" /\ Top.inp.otpok /\ Top.inp.pwok

\* C20 as stated: update_otp_by_name returns True exactly when a user of that
\* name exists, and then the user's is_otp is otp and its otp_secret is secret,
\* also for a null secret; otherwise it returns False and no row changes.
C20_OtpSetIncludingNull ==
    \A fr \in FramesOf("update_otp_by_name") :
       Succeeded(fr) =>
          LET rows == {r \in fr.d0.usr : r.name = fr.inp.name}
          IN  /\ fr.res = "True" <=> rows # {}
              /\ rows # {} =>
                    \A r \in durable.usr :
                       r.name = fr.inp.name =>
                          (r.is_otp = fr.inp.otp /\ r.otp_secret = fr.inp.secret)
              /\ rows = {} => (fr.res = "False" /\ durable.usr = fr.d0.usr)

\* C20 (amended): update_otp_by_name returns True exactly when a user of that
\* name exists; then the user's is_otp is otp, its otp_secret is secret when
\* secret is not null and is unchanged when secret is null, and nothing else
\* changes; when no such user exists it returns False and no row changes.
C20_OtpSetUnlessNull ==
    \A fr \in FramesOf("update_otp_by_name") :
       Succeeded(fr) =>
          LET rows == {r \in fr.d0.usr : r.name = fr.inp.name}
          IN  /\ fr.res = "True" <=> rows # {}
              /\ rows # {} =>
                    durable.usr = (fr.d0.usr \ rows) \cup
                       {[r EXCEPT !.is_otp = fr.inp.otp,
                                  !.otp_secret = IF fr.inp.secret = None
                                                 THEN @ ELSE fr.inp.secret] :
                          r \in rows}
              /\ rows = {} => (fr.res = "False" /\ durable.usr = fr.d0.usr)

\* C20 witness: update_otp_by_name(name, False, None) for a user whose secret
\* is s1 has returned True: is_otp is False and the secret is still s1
C20_Witness ==
    /\ Running /\ Top.f = "update_otp_by_name" /\ Succeeded(Top)
    /\ Top.res = "True" /\ Top.inp.otp = "False" /\ Top.inp.secret = None
    /\ \E r \in durable.usr :
          r.name = Top.inp.name /\ r.is_otp = "False" /\ r.otp_secret = "s1"
    /\ \E r \in Top.d0.usr : r.name = Top.inp.name /\ r.is_otp = "True"

----------------------------------------------------------------------------
(* SpecConc: two threads, each calling wrapped operations without a        *)
(* session.  The interpreter may switch threads between any two steps.     *)

ConcFuncs == {"create", "get_by_name", "delete_by_name"}

\* the running thread is suspended and thread t resumes
Switch(t) ==
    /\ t # tid
    /\ tid' = t
    /\ stack' = parked[t]
    /\ parked' = [parked EXCEPT ![tid] = stack, ![t] = <<>>]
    /\ UNCHANGED <<durable, pend, active, copen, ncalls, last, seq, seqFailed>>
    /\ UNCHANGED argVars

NextConc ==
    \/ \E t \in Threads : Switch(t)
    \/ /\ ~Running /\ ncalls < MaxConcCalls
       /\ \E f \in ConcFuncs, style \in {"pos", "kw"} : Call(f, None, style)
    \/ BodyStmtOk
    \/ BodyReadOk
    \/ BodyRaise
    \/ BodyCall
    \/ BodyUserFound
    \/ BodyUserMissing
    \/ BodyEnd
    \/ ReturnToParent
    \/ Wrapper

SpecConc == Init /\ [][NextConc]_vars

\* the frames of the calls a suspended thread has under way
ParkedFrames(t) == {parked[t][i] : i \in 1..Len(parked[t])}

\* no call of the running thread is on a session a suspended thread's call is on
DistinctSessions ==
    \A t \in Threads \ {tid} :
       \A fr \in Frames : \A gr \in ParkedFrames(t) : fr.db # gr.db

\* a step leaves the session of every suspended call as it is
OthersUntouched ==
    \A t \in Threads \ {tid} :
       \A gr \in ParkedFrames(t) :
          /\ pend'[gr.db] = pend[gr.db]
          /\ active'[gr.db] = active[gr.db]

\* C15: two threads that call wrapped operations without passing a session
\* never have calls under way on the same session: each wrapper takes its own
\* thread's session, and no step of one thread (commit, rollback and close
\* included) changes the session a call of the other thread is on.
C15_ThreadsOwnSessions == []DistinctSessions /\ [][OthersUntouched]_vars

\* C15 witness: one thread's call has committed and closed its session while
\* the other thread's call, suspended in its wrapper, still holds its
\* uncommitted write on its own session
C15_Witness ==
    /\ Running /\ Top.pc = "done" /\ Top.ev = <<"alloc", "commit", "close">>
    /\ \E t \in Threads \ {tid} :
          /\ parked[t] # <<>>
          /\ parked[t][1].given = None /\ parked[t][1].pc = "commit"
          /\ pend[parked[t][1].db] = <<[k |-> "eff", id |-> parked[t][1].id]>>
          /\ pend[Top.db] = <<>>

====
